---- MODULE Spec2Model ----
(***************************************************************************)
(* Model of mbtest.imposters.responses: the response variants (Response,   *)
(* TcpResponse, Proxy, InjectionResponse), PredicateGenerator, and the     *)
(* shape dispatch BaseResponse.from_structure.                             *)
(*                                                                         *)
(* Python values are tagged pairs <<type, payload>>, so that None, 0, "",  *)
(* {} and [] stay distinct values with Python's truth value each.  A dict  *)
(* is a function from key strings to values; an object is its class name   *)
(* with the record of its attributes; a raised exception is its class      *)
(* name with the offending key or value.                                   *)
(***************************************************************************)
EXTENDS Integers, Sequences, FiniteSets, TLC

VARIABLES
    args,       \* the arguments the entity's constructor was called with, or None
    self,       \* the in-memory entity under construction/serialization, or None
    structure,  \* the JsonStructure produced by as_structure or received from the wire
    result,     \* what the last from_structure returned or raised, or None
    call,       \* the from_structure entry point that was invoked
    callee,     \* the variant parser that actually ran (the delegate, for dispatch)
    pc          \* "idle" | "constructed" | "raised" | "serialized" | "received" | "parsed"

vars == <<args, self, structure, result, call, callee, pc>>

---------------------------------------------------------------------------
(* Python values *)

None == <<"NoneType", "None">>
Bool(b) == <<"bool", b>>
Num(n) == <<"int", n>>
Str(s) == <<"str", s>>
Bytes(s) == <<"bytes", s>>
\* an xml.etree Element: the text et.tostring renders for it, and how many
\* children it has
Element(s, n) == <<"Element", [text |-> s, children |-> n]>>
Dict(f) == <<"dict", f>>
List(s) == <<"list", s>>
Obj(cls, attrs) == <<cls, attrs>>

\* a parameter the caller leaves out, and the value the signature gives it then
Omitted == <<"omitted", "">>
Default(v, d) == IF v = Omitted THEN d ELSE v

EmptyDict == Dict(<<>>)
EmptyList == List(<<>>)

KeyError(k) == <<"KeyError", k>>
ValueError(v) == <<"ValueError", v>>
NotImplementedError == <<"NotImplementedError", "">>

IsError(x) == x[1] \in {"KeyError", "ValueError", "NotImplementedError"}

\* Python's truth value test, as used by "if value:" and "if self.copy:"; an
\* Element is a container of its children, false when it has none.
Truthy(v) ==
    CASE v[1] = "NoneType" -> FALSE
      [] v[1] = "bool" -> v[2]
      [] v[1] = "int" -> v[2] # 0
      [] v[1] = "str" -> v[2] # ""
      [] v[1] = "bytes" -> v[2] # ""
      [] v[1] = "dict" -> DOMAIN v[2] # {}
      [] v[1] = "list" -> Len(v[2]) # 0
      [] v[1] = "Element" -> v[2].children # 0
      [] OTHER -> TRUE

\* key in dictionary
Has(d, k) == k \in DOMAIN d[2]
\* dictionary[key]
Get(d, k) == d[2][k]
\* dictionary[key] = value
Put(d, k, v) == Dict((k :> v) @@ d[2])
\* isinstance(x, Sequence) for the values passed as copy/lookup
IsSequence(x) == x[1] \in {"list", "str", "bytes"}
\* the first exception raised while building a list comprehension, if any
FirstError(l) ==
    IF \E i \in 1..Len(l[2]) : IsError(l[2][i])
    THEN l[2][CHOOSE i \in 1..Len(l[2]) :
                 IsError(l[2][i]) /\ \A j \in 1..(i - 1) : ~IsError(l[2][j])]
    ELSE None

\* setattr(obj, name, value)
SetAttr(obj, name, v) == Obj(obj[1], [obj[2] EXCEPT ![name] = v])

---------------------------------------------------------------------------
(* mbtest.imposters.base.JsonSerializable helpers *)

\* JsonSerializable._add_if_true(dictionary, key, value)
add_if_true(dictionary, key, value) ==
    IF Truthy(value) THEN Put(dictionary, key, value) ELSE dictionary

\* JsonSerializable._set_if_in_dict(self, dictionary, key, name)
set_if_in_dict(obj, dictionary, key, name) ==
    IF Has(dictionary, key) THEN SetAttr(obj, name, Get(dictionary, key)) ELSE obj

---------------------------------------------------------------------------
(* mbtest.imposters.behaviors.Copy / Lookup: opaque value objects, each     *)
(* serialized under its own structure keys and parsed back from them.       *)

Copy_as_structure(c) == Dict(c[2])
Copy_from_structure(s) == Obj("Copy", s[2])
Lookup_as_structure(l) == Dict(l[2])
Lookup_from_structure(s) == Obj("Lookup", s[2])

---------------------------------------------------------------------------
(* Response *)

\* class Response.Mode(Enum): member name -> wire value
Response_Mode_members == [TEXT |-> "text", BINARY |-> "binary"]
Response_Mode_TEXT == <<"Response.Mode", "TEXT">>
Response_Mode_BINARY == <<"Response.Mode", "BINARY">>
IsResponseMode(m) == m[1] = "Response.Mode"
\* member.value
Response_Mode_value(m) == Str(Response_Mode_members[m[2]])
\* Mutant of Response_Mode: an unknown tag falls back to TEXT instead of raising
Response_Mode_lenient(v) ==
    IF IsResponseMode(v) THEN v
    ELSE IF v[1] = "str" /\ v[2] = "binary" THEN <<"Response.Mode", "BINARY">>
    ELSE <<"Response.Mode", "TEXT">>

\* Response.Mode(value): lookup of a member by value
Response_Mode(v) ==
    IF IsResponseMode(v) THEN v
    ELSE IF v[1] = "str" /\ \E n \in DOMAIN Response_Mode_members :
                                Response_Mode_members[n] = v[2]
    THEN <<"Response.Mode",
           CHOOSE n \in DOMAIN Response_Mode_members : Response_Mode_members[n] = v[2]>>
    ELSE ValueError(v)

\* the mode Response.__init__ keeps for its mode argument
Response_init_mode(mode) ==
    IF IsResponseMode(mode) THEN mode
    ELSE IF Truthy(mode) THEN Response_Mode(mode)
    ELSE Response_Mode_TEXT

\* the list Response.__init__ keeps for its copy / lookup argument
Response_init_list(x) ==
    IF IsSequence(x) THEN x ELSE IF Truthy(x) THEN List(<<x>>) ELSE None

\* Response.__init__: the new Response, or the ValueError that Response.Mode(mode)
\* raises for a truthy mode that is neither a member nor a member's value, in
\* which case no object is built
Response_init(body, status_code, wait, repeat, headers, mode, copy, decorate, lookup, shell_transform) ==
    LET m == Response_init_mode(Default(mode, None))
    IN IF IsError(m) THEN m
       ELSE Obj("Response",
                [body |-> Default(body, Str("")),
                 status_code |-> Default(status_code, Num(200)),
                 wait |-> Default(wait, None),
                 repeat |-> Default(repeat, None),
                 headers |-> Default(headers, None),
                 mode |-> m,
                 copy |-> Response_init_list(Default(copy, None)),
                 decorate |-> Default(decorate, None),
                 lookup |-> Response_init_list(Default(lookup, None)),
                 shell_transform |-> Default(shell_transform, None)])

\* Response() with every parameter at its default
Response_default ==
    Response_init(Omitted, Omitted, Omitted, Omitted, Omitted, Omitted, Omitted, Omitted,
                  Omitted, Omitted)

\* Response.body (property): markup is rendered, bytes are decoded, else as is
Response_body(r) ==
    IF r[2].body[1] = "Element" THEN Str(r[2].body[2].text)
    ELSE IF r[2].body[1] = "bytes" THEN Str(r[2].body[2])
    ELSE r[2].body

\* Mutant of Response_is_structure: statusCode added only if true, like body
Response_is_structure_if_true(r) ==
    LET s0 == Dict("_mode" :> Response_Mode_value(r[2].mode))
        s1 == add_if_true(s0, "statusCode", r[2].status_code)
        s2 == add_if_true(s1, "body", Response_body(r))
        s3 == add_if_true(s2, "headers", r[2].headers)
    IN s3

\* Response._is_structure
Response_is_structure(r) ==
    LET s0 == Dict(("statusCode" :> r[2].status_code)
                   @@ ("_mode" :> Response_Mode_value(r[2].mode)))
        s1 == add_if_true(s0, "body", Response_body(r))
        s2 == add_if_true(s1, "headers", r[2].headers)
    IN s2

\* Mutant of Response_behaviors_structure: wait is stored whatever its value
Response_behaviors_structure_unconditional(r) ==
    LET b1 == Put(EmptyDict, "wait", r[2].wait)
        b2 == add_if_true(b1, "repeat", r[2].repeat)
        b3 == add_if_true(b2, "decorate", r[2].decorate)
        b4 == add_if_true(b3, "shellTransform", r[2].shell_transform)
        b5 == IF Truthy(r[2].copy)
              THEN Put(b4, "copy", List([i \in DOMAIN r[2].copy[2] |-> Copy_as_structure(r[2].copy[2][i])]))
              ELSE b4
        b6 == IF Truthy(r[2].lookup)
              THEN Put(b5, "lookup", List([i \in DOMAIN r[2].lookup[2] |-> Lookup_as_structure(r[2].lookup[2][i])]))
              ELSE b5
    IN b6

\* Response._behaviors_structure
Response_behaviors_structure(r) ==
    LET b0 == EmptyDict
        b1 == add_if_true(b0, "wait", r[2].wait)
        b2 == add_if_true(b1, "repeat", r[2].repeat)
        b3 == add_if_true(b2, "decorate", r[2].decorate)
        b4 == add_if_true(b3, "shellTransform", r[2].shell_transform)
        b5 == IF Truthy(r[2].copy)
              THEN Put(b4, "copy", List([i \in DOMAIN r[2].copy[2] |-> Copy_as_structure(r[2].copy[2][i])]))
              ELSE b4
        b6 == IF Truthy(r[2].lookup)
              THEN Put(b5, "lookup", List([i \in DOMAIN r[2].lookup[2] |-> Lookup_as_structure(r[2].lookup[2][i])]))
              ELSE b5
    IN b6

\* Response.as_structure
Response_as_structure(r) ==
    Dict(("is" :> Response_is_structure(r))
         @@ ("_behaviors" :> Response_behaviors_structure(r)))

\* Response._fields_from_structure: the response with the fields of the "is"
\* block set, or the exception raised on the way
Response_fields_from_structure(r, s) ==
    IF ~Has(s, "is") THEN KeyError("is")
    ELSE LET inner == Get(s, "is")
             r1 == IF Has(inner, "body") THEN SetAttr(r, "body", Get(inner, "body")) ELSE r
         IN IF ~Has(inner, "_mode") THEN KeyError("_mode")
            ELSE LET m == Response_Mode(Get(inner, "_mode"))
                     r2 == SetAttr(r1, "mode", m)
                     r3 == IF Has(inner, "headers")
                           THEN SetAttr(r2, "headers", Get(inner, "headers")) ELSE r2
                     r4 == IF Has(inner, "statusCode")
                           THEN SetAttr(r3, "status_code", Get(inner, "statusCode")) ELSE r3
                 IN IF IsError(m) THEN m ELSE r4

\* Response.from_structure
Response_from_structure(s) ==
    LET r0 == Response_fields_from_structure(Response_default, s)
    IN IF IsError(r0) THEN r0
       ELSE LET behaviors == IF Has(s, "_behaviors") THEN Get(s, "_behaviors") ELSE EmptyDict
                r1 == set_if_in_dict(r0, behaviors, "wait", "wait")
                r2 == set_if_in_dict(r1, behaviors, "repeat", "repeat")
                r3 == set_if_in_dict(r2, behaviors, "decorate", "decorate")
                r4 == set_if_in_dict(r3, behaviors, "shellTransform", "shell_transform")
                r5 == IF Has(behaviors, "copy")
                      THEN SetAttr(r4, "copy",
                                   List([i \in DOMAIN Get(behaviors, "copy")[2] |-> Copy_from_structure(Get(behaviors, "copy")[2][i])]))
                      ELSE r4
                r6 == IF Has(behaviors, "lookup")
                      THEN SetAttr(r5, "lookup",
                                   List([i \in DOMAIN Get(behaviors, "lookup")[2] |-> Lookup_from_structure(Get(behaviors, "lookup")[2][i])]))
                      ELSE r5
            IN r6

---------------------------------------------------------------------------
(* TcpResponse *)

\* TcpResponse.__init__
TcpResponse_init(data) == Obj("TcpResponse", [data |-> data])

\* TcpResponse.as_structure
TcpResponse_as_structure(t) == Dict("is" :> Dict("data" :> t[2].data))

\* Mutant of TcpResponse_from_structure: a missing key reads as None (dict.get)
TcpResponse_from_structure_get(s) ==
    IF Has(s, "is") /\ Has(Get(s, "is"), "data")
    THEN TcpResponse_init(Get(Get(s, "is"), "data"))
    ELSE TcpResponse_init(None)

\* TcpResponse.from_structure
TcpResponse_from_structure(s) ==
    IF ~Has(s, "is") THEN KeyError("is")
    ELSE IF ~Has(Get(s, "is"), "data") THEN KeyError("data")
    ELSE TcpResponse_init(Get(Get(s, "is"), "data"))

---------------------------------------------------------------------------
(* InjectionResponse *)

\* InjectionResponse.__init__
InjectionResponse_init(inject) == Obj("InjectionResponse", [inject |-> inject])

\* InjectionResponse.as_structure
InjectionResponse_as_structure(i) == Dict("inject" :> i[2].inject)

\* InjectionResponse.from_structure
InjectionResponse_from_structure(s) ==
    IF ~Has(s, "inject") THEN KeyError("inject")
    ELSE InjectionResponse_init(Get(s, "inject"))

---------------------------------------------------------------------------
(* furl: the URL value Proxy keeps for "to" *)

\* the URL strings of the model and the text furl renders for each: furl drops
\* the port of a URL when it is the default port of its scheme
furl_url(u) == IF u = "http://origin:80" THEN "http://origin" ELSE u
\* furl(x): from a string, or a copy of another furl
furl(x) == IF x[1] = "furl" THEN x ELSE <<"furl", furl_url(x[2])>>
IsFurl(x) == x[1] = "furl"

---------------------------------------------------------------------------
(* PredicateGenerator *)

\* mbtest.imposters.predicates.Predicate.Operator: the member names
Predicate_Operator_names ==
    {"EQUALS", "DEEP_EQUALS", "CONTAINS", "STARTS_WITH", "ENDS_WITH", "MATCHES", "EXISTS"}
Predicate_Operator_EQUALS == <<"Predicate.Operator", "EQUALS">>
\* Predicate.Operator[name]: lookup of a member by name
Predicate_Operator(name) ==
    IF name[1] = "str" /\ name[2] \in Predicate_Operator_names
    THEN <<"Predicate.Operator", name[2]>>
    ELSE KeyError(name[2])

\* PredicateGenerator.__init__
PredicateGenerator_init(path, query, operator, case_sensitive) ==
    Obj("PredicateGenerator",
        [path |-> Default(path, Bool(FALSE)),
         query |-> Default(query, Bool(FALSE)),
         operator |-> Default(operator, Predicate_Operator_EQUALS),
         case_sensitive |-> Default(case_sensitive, Bool(TRUE))])

\* PredicateGenerator.as_structure
PredicateGenerator_as_structure(g) ==
    LET m0 == EmptyDict
        m1 == add_if_true(m0, "path", g[2].path)
        m2 == add_if_true(m1, "query", g[2].query)
    IN Dict(("caseSensitive" :> g[2].case_sensitive) @@ ("matches" :> m2))

\* Mutant of PredicateGenerator_from_structure: a missing caseSensitive reads as
\* True, the constructor's default
PredicateGenerator_from_structure_true_default(s) ==
    IF ~Has(s, "matches") THEN KeyError("matches")
    ELSE LET matches == Get(s, "matches")
             path == IF Has(matches, "path") THEN Get(matches, "path") ELSE None
             query == IF Has(matches, "query") THEN Get(matches, "query") ELSE None
             operator == IF Has(s, "operator") THEN Predicate_Operator(Get(s, "operator"))
                         ELSE Predicate_Operator_EQUALS
             case_sensitive == IF Has(s, "caseSensitive") THEN Get(s, "caseSensitive")
                               ELSE Bool(TRUE)
         IN IF IsError(operator) THEN operator
            ELSE PredicateGenerator_init(path, query, operator, case_sensitive)

\* PredicateGenerator.from_structure
PredicateGenerator_from_structure(s) ==
    IF ~Has(s, "matches") THEN KeyError("matches")
    ELSE LET matches == Get(s, "matches")
             path == IF Has(matches, "path") THEN Get(matches, "path") ELSE None
             query == IF Has(matches, "query") THEN Get(matches, "query") ELSE None
             operator == IF Has(s, "operator") THEN Predicate_Operator(Get(s, "operator"))
                         ELSE Predicate_Operator_EQUALS
             case_sensitive == IF Has(s, "caseSensitive") THEN Get(s, "caseSensitive")
                               ELSE Bool(FALSE)
         IN IF IsError(operator) THEN operator
            ELSE PredicateGenerator_init(path, query, operator, case_sensitive)

---------------------------------------------------------------------------
(* Proxy *)

\* class Proxy.Mode(Enum): member name -> wire value
Proxy_Mode_members ==
    [ONCE |-> "proxyOnce", ALWAYS |-> "proxyAlways", TRANSPARENT |-> "proxyTransparent"]
Proxy_Mode_ONCE == <<"Proxy.Mode", "ONCE">>
Proxy_Mode_ALWAYS == <<"Proxy.Mode", "ALWAYS">>
Proxy_Mode_TRANSPARENT == <<"Proxy.Mode", "TRANSPARENT">>
\* member.value
Proxy_Mode_value(m) == Str(Proxy_Mode_members[m[2]])
\* Proxy.Mode(value): lookup of a member by value
Proxy_Mode(v) ==
    IF v[1] = "Proxy.Mode" THEN v
    ELSE IF v[1] = "str" /\ \E n \in DOMAIN Proxy_Mode_members : Proxy_Mode_members[n] = v[2]
    THEN <<"Proxy.Mode",
           CHOOSE n \in DOMAIN Proxy_Mode_members : Proxy_Mode_members[n] = v[2]>>
    ELSE ValueError(v)

\* Proxy.__init__
Proxy_init(to, wait, inject_headers, mode, predicate_generators) ==
    Obj("Proxy",
        [to |-> to,
         wait |-> Default(wait, None),
         inject_headers |-> Default(inject_headers, None),
         mode |-> Default(mode, Proxy_Mode_ONCE),
         predicate_generators |->
             IF Default(predicate_generators, None) # None
             THEN predicate_generators ELSE EmptyList])

\* Mutant of Proxy_as_structure: _behaviors is emitted whenever wait is not None
Proxy_as_structure_not_none(p) ==
    LET p0 == Dict(("to" :> IF IsFurl(p[2].to) THEN Str(p[2].to[2]) ELSE p[2].to)
                   @@ ("mode" :> Proxy_Mode_value(p[2].mode)))
        p1 == add_if_true(p0, "injectHeaders", p[2].inject_headers)
        p2 == add_if_true(p1, "predicateGenerators",
                          List([i \in DOMAIN p[2].predicate_generators[2] |-> PredicateGenerator_as_structure(p[2].predicate_generators[2][i])]))
        response == Dict("proxy" :> p2)
    IN IF p[2].wait # None
       THEN Put(response, "_behaviors", Dict("wait" :> p[2].wait))
       ELSE response

\* Proxy.as_structure
Proxy_as_structure(p) ==
    LET p0 == Dict(("to" :> IF IsFurl(p[2].to) THEN Str(p[2].to[2]) ELSE p[2].to)
                   @@ ("mode" :> Proxy_Mode_value(p[2].mode)))
        p1 == add_if_true(p0, "injectHeaders", p[2].inject_headers)
        p2 == add_if_true(p1, "predicateGenerators",
                          List([i \in DOMAIN p[2].predicate_generators[2] |-> PredicateGenerator_as_structure(p[2].predicate_generators[2][i])]))
        response == Dict("proxy" :> p2)
    IN IF Truthy(p[2].wait)
       THEN Put(response, "_behaviors", Dict("wait" :> p[2].wait))
       ELSE response

\* Proxy.from_structure; the constructor's arguments are evaluated in order, so
\* the first missing key or invalid tag is the exception raised
Proxy_from_structure(s) ==
    IF ~Has(s, "proxy") THEN KeyError("proxy")
    ELSE LET ps == Get(s, "proxy") IN
         IF ~Has(ps, "to") THEN KeyError("to")
         ELSE IF ~Has(ps, "mode") THEN KeyError("mode")
         ELSE LET to == furl(Get(ps, "to"))
                  inject_headers == IF Has(ps, "injectHeaders")
                                    THEN Get(ps, "injectHeaders") ELSE None
                  mode == Proxy_Mode(Get(ps, "mode"))
                  generators == IF Has(ps, "predicateGenerators")
                                THEN List([i \in DOMAIN Get(ps, "predicateGenerators")[2] |-> PredicateGenerator_from_structure(Get(ps, "predicateGenerators")[2][i])])
                                ELSE None
                  proxy == Proxy_init(to, Omitted, inject_headers, mode, generators)
                  behaviors == IF Has(s, "_behaviors") THEN Get(s, "_behaviors")
                               ELSE EmptyDict
                  wait == IF Has(behaviors, "wait") THEN Get(behaviors, "wait") ELSE None
              IN IF IsError(mode) THEN mode
                 ELSE IF generators # None /\ FirstError(generators) # None
                 THEN FirstError(generators)
                 ELSE IF Truthy(wait) THEN SetAttr(proxy, "wait", wait) ELSE proxy

---------------------------------------------------------------------------
(* BaseResponse: dispatch on the shape of the document *)

\* Mutant of BaseResponse_dispatch: the is.data test comes before the _behaviors test
BaseResponse_dispatch_data_first(s) ==
    IF Has(s, "is") /\ Has(Get(s, "is"), "data") THEN "TcpResponse"
    ELSE IF Has(s, "is") /\ Has(s, "_behaviors") THEN "Response"
    ELSE IF Has(s, "proxy") THEN "Proxy"
    ELSE IF Has(s, "inject") THEN "InjectionResponse"
    ELSE "none"

\* Mutant of BaseResponse_dispatch: _behaviors alone selects Response
BaseResponse_dispatch_behaviors_alone(s) ==
    IF Has(s, "_behaviors") THEN "Response"
    ELSE IF Has(s, "is") /\ Has(Get(s, "is"), "data") THEN "TcpResponse"
    ELSE IF Has(s, "proxy") THEN "Proxy"
    ELSE IF Has(s, "inject") THEN "InjectionResponse"
    ELSE "none"

\* the branch BaseResponse.from_structure takes: the variant whose parser it
\* delegates to, or "none" when it falls through to the raise
BaseResponse_dispatch(s) ==
    IF Has(s, "is") /\ Has(s, "_behaviors") THEN "Response"
    ELSE IF Has(s, "is") /\ Has(Get(s, "is"), "data") THEN "TcpResponse"
    ELSE IF Has(s, "proxy") THEN "Proxy"
    ELSE IF Has(s, "inject") THEN "InjectionResponse"
    ELSE "none"

\* cls.from_structure(s)
from_structure_of(cls, s) ==
    CASE cls = "Response" -> Response_from_structure(s)
      [] cls = "TcpResponse" -> TcpResponse_from_structure(s)
      [] cls = "Proxy" -> Proxy_from_structure(s)
      [] cls = "InjectionResponse" -> InjectionResponse_from_structure(s)
      [] cls = "PredicateGenerator" -> PredicateGenerator_from_structure(s)
      [] OTHER -> NotImplementedError

\* BaseResponse.from_structure
BaseResponse_from_structure(s) == from_structure_of(BaseResponse_dispatch(s), s)

\* x.as_structure()
as_structure_of(x) ==
    CASE x[1] = "Response" -> Response_as_structure(x)
      [] x[1] = "TcpResponse" -> TcpResponse_as_structure(x)
      [] x[1] = "Proxy" -> Proxy_as_structure(x)
      [] x[1] = "InjectionResponse" -> InjectionResponse_as_structure(x)
      [] x[1] = "PredicateGenerator" -> PredicateGenerator_as_structure(x)

---------------------------------------------------------------------------
(* Inputs: the argument values callers construct entities from, and the      *)
(* documents received from the server.                                       *)

MaxBehaviors == 1     \* longest copy / lookup list passed to Response
MaxGenerators == 1    \* longest predicate_generators list passed to Proxy

SeqsUpTo(S, n) == UNION {[1..k -> S] : k \in 0..n}

aCopy == Obj("Copy", ("from" :> Str("path")) @@ ("into" :> Str("${p}")))
aLookup == Obj("Lookup", ("key" :> Str("k")) @@ ("into" :> Str("${row}")))

Bodies == {Str(""), Str("hi"), Bytes("hi"), Element("<a />", 0),
           Element("<a><b /></a>", 1)}
StatusCodes == {Num(0), Num(200)}
Waits == {None, Num(0), Num(500)}
Repeats == {None, Num(0), Num(2)}
HeaderMaps == {None, EmptyDict, Dict("X" :> Str("1"))}
ResponseModes == {None, Response_Mode_BINARY, Str("binary"), Str("TEXT")}
Copies == {None, aCopy} \cup {List(s) : s \in SeqsUpTo({aCopy}, MaxBehaviors)}
Decorates == {None, Str(""), Str("js")}
Lookups == {None, aLookup} \cup {List(s) : s \in SeqsUpTo({aLookup}, MaxBehaviors)}
ShellTransforms == {None, EmptyList, Str("cmd")}

Payloads == {Str(""), Str("ABC")}
Scripts == {Str(""), Str("function(){}")}

Urls == {"http://origin", "http://origin:80"}
Targets == {Str(u) : u \in Urls} \cup {furl(Str(u)) : u \in Urls}
ProxyModes == {Omitted, Proxy_Mode_ONCE, Proxy_Mode_ALWAYS, Proxy_Mode_TRANSPARENT}

Paths == {Bool(FALSE), Bool(TRUE)}
Queries == {Bool(FALSE), Bool(TRUE), Dict("q" :> Str("1"))}
Operators == {Predicate_Operator_EQUALS, <<"Predicate.Operator", "CONTAINS">>}
CaseFlags == {Omitted, Bool(FALSE), Bool(TRUE)}
\* the generators given to a Proxy
ProxyGenerators ==
    {PredicateGenerator_init(Bool(TRUE), Dict("q" :> Str("1")), Predicate_Operator_EQUALS,
                             Bool(TRUE)),
     PredicateGenerator_init(Bool(TRUE), Bool(TRUE), <<"Predicate.Operator", "CONTAINS">>,
                             Bool(FALSE))}
GeneratorLists == {None} \cup {List(s) : s \in SeqsUpTo(ProxyGenerators, MaxGenerators)}

\* a key that a document may lack
Absent == <<"absent", "">>
\* the dict of the entries of f that are present
Present(f) == Dict([k \in {x \in DOMAIN f : f[x] # Absent} |-> f[k]])

GeneratorDocuments ==
    {Present(("matches" :> m) @@ ("operator" :> o) @@ ("caseSensitive" :> c)) :
        m \in {Absent, EmptyDict, Dict("path" :> Bool(TRUE)),
               Dict(("path" :> Bool(TRUE)) @@ ("query" :> Dict("q" :> Str("1"))))},
        o \in {Absent, Str("EQUALS"), Str("CONTAINS"), Str("equals"), Str("BOGUS")},
        c \in {Absent, Bool(FALSE), Bool(TRUE)}}

IsBlocks ==
    {EmptyDict,
     Dict("data" :> Str("ABC")),
     Dict(("_mode" :> Str("text")) @@ ("statusCode" :> Num(200)) @@ ("body" :> Str("hi"))),
     Dict(("_mode" :> Str("binary")) @@ ("data" :> Str("ABC"))),
     Dict(("_mode" :> Str("TEXT")) @@ ("statusCode" :> Num(200))),
     Dict("_mode" :> Str("bogus"))}
BehaviorBlocks == {EmptyDict, Dict("wait" :> Num(500)), Dict("repeat" :> Num(2))}
ProxyBlocks ==
    {Present(("to" :> t) @@ ("mode" :> m) @@ ("predicateGenerators" :> g)) :
        t \in {Absent, Str("http://origin")},
        m \in {Absent, Str("proxyOnce"), Str("proxyAlways"), Str("proxyTransparent"),
               Str("ONCE"), Str("bogus")},
        g \in {Absent,
               List(<<Dict(("matches" :> EmptyDict) @@ ("operator" :> Str("BOGUS")))>>)}}
ResponseDocuments ==
    {Present(("is" :> i) @@ ("_behaviors" :> b) @@ ("proxy" :> p) @@ ("inject" :> j)) :
        i \in IsBlocks \cup {Absent}, b \in BehaviorBlocks \cup {Absent},
        p \in ProxyBlocks \cup {Absent}, j \in {Absent, Str("function(){}")}}
Documents == ResponseDocuments \cup GeneratorDocuments

Variants == {"Response", "TcpResponse", "Proxy", "InjectionResponse"}
Classes == Variants \cup {"PredicateGenerator"}

---------------------------------------------------------------------------
(* The state machine: an entity is constructed and serialized, or a document *)
(* is received; then one from_structure entry point is applied to it.        *)

Init ==
    /\ args = None
    /\ self = None
    /\ structure = None
    /\ result = None
    /\ call = "none"
    /\ callee = "none"
    /\ pc = "idle"

\* a constructor call: self is the new entity, or the exception __init__ raised,
\* after which there is no entity to serialize
Construct(a, obj) ==
    /\ args' = <<"args", a>>
    /\ self' = obj
    /\ pc' = IF IsError(obj) THEN "raised" ELSE "constructed"
    /\ UNCHANGED <<structure, result, call, callee>>

NewResponse ==
    /\ pc = "idle"
    /\ \E body \in Bodies, status_code \in StatusCodes, wait \in Waits, repeat \in Repeats,
          headers \in HeaderMaps, mode \in ResponseModes, copy \in Copies,
          decorate \in Decorates, lookup \in Lookups, shell_transform \in ShellTransforms :
        Construct([body |-> body, status_code |-> status_code, wait |-> wait,
                   repeat |-> repeat, headers |-> headers, mode |-> mode, copy |-> copy,
                   decorate |-> decorate, lookup |-> lookup,
                   shell_transform |-> shell_transform],
                  Response_init(body, status_code, wait, repeat, headers, mode, copy,
                                decorate, lookup, shell_transform))

NewTcpResponse ==
    /\ pc = "idle"
    /\ \E data \in Payloads : Construct([data |-> data], TcpResponse_init(data))

NewInjectionResponse ==
    /\ pc = "idle"
    /\ \E inject \in Scripts : Construct([inject |-> inject], InjectionResponse_init(inject))

NewProxy ==
    /\ pc = "idle"
    /\ \E to \in Targets, wait \in Waits, inject_headers \in HeaderMaps, mode \in ProxyModes,
          predicate_generators \in GeneratorLists :
        Construct([to |-> to, wait |-> wait, inject_headers |-> inject_headers,
                   mode |-> mode, predicate_generators |-> predicate_generators],
                  Proxy_init(to, wait, inject_headers, mode, predicate_generators))

NewPredicateGenerator ==
    /\ pc = "idle"
    /\ \E path \in Paths, query \in Queries, operator \in Operators,
          case_sensitive \in CaseFlags :
        Construct([path |-> path, query |-> query, operator |-> operator,
                   case_sensitive |-> case_sensitive],
                  PredicateGenerator_init(path, query, operator, case_sensitive))

AsStructure ==
    /\ pc = "constructed"
    /\ structure' = as_structure_of(self)
    /\ pc' = "serialized"
    /\ UNCHANGED <<args, self, result, call, callee>>

Receive ==
    /\ pc = "idle"
    /\ \E d \in Documents : structure' = d
    /\ pc' = "received"
    /\ UNCHANGED <<args, self, result, call, callee>>

\* cls.from_structure(structure), called directly: on a received document, or on
\* the document an entity of that class was serialized to
Parse(cls) ==
    /\ pc = "received" \/ (pc = "serialized" /\ self[1] = cls)
    /\ result' = from_structure_of(cls, structure)
    /\ call' = cls
    /\ callee' = cls
    /\ pc' = "parsed"
    /\ UNCHANGED <<args, self, structure>>

ParseResponse == Parse("Response")
ParseTcpResponse == Parse("TcpResponse")
ParseProxy == Parse("Proxy")
ParseInjectionResponse == Parse("InjectionResponse")
ParsePredicateGenerator == Parse("PredicateGenerator")

\* BaseResponse.from_structure(structure)
Dispatch ==
    /\ pc \in {"serialized", "received"}
    /\ result' = BaseResponse_from_structure(structure)
    /\ call' = "BaseResponse"
    /\ callee' = BaseResponse_dispatch(structure)
    /\ pc' = "parsed"
    /\ UNCHANGED <<args, self, structure>>

Next ==
    \/ NewResponse
    \/ NewTcpResponse
    \/ NewInjectionResponse
    \/ NewProxy
    \/ NewPredicateGenerator
    \/ AsStructure
    \/ Receive
    \/ ParseResponse
    \/ ParseTcpResponse
    \/ ParseProxy
    \/ ParseInjectionResponse
    \/ ParsePredicateGenerator
    \/ Dispatch

Spec == Init /\ [][Next]_vars

TypeOK ==
    /\ pc \in {"idle", "constructed", "raised", "serialized", "received", "parsed"}
    /\ pc = "raised" <=> IsError(self)
    /\ call \in Classes \cup {"BaseResponse", "none"}
    /\ callee \in Classes \cup {"none"}

---------------------------------------------------------------------------
(* Properties *)

\* the entity of class cls has been serialized: structure = self.as_structure()
Serialized(cls) == pc \in {"serialized", "parsed"} /\ self[1] = cls
\* cls.from_structure was applied to the structure of an entity of class cls
RoundTrip(cls) == pc = "parsed" /\ self[1] = cls /\ call = cls
\* variant parser cls has run, directly or as the delegate of the dispatch
Parsed(cls) == pc = "parsed" /\ callee = cls
\* the fields callers observe: a Response's body is read through the body
\* property; a Proxy's target is the URL it names, whether kept as str or furl
Observable(x) ==
    IF x[1] = "Response" THEN [x[2] EXCEPT !.body = Response_body(x)]
    ELSE IF x[1] = "Proxy" THEN [x[2] EXCEPT !.to = furl(x[2].to)]
    ELSE x[2]
\* an optional field that is left out (None) or set to a value that counts as set
SetOrNone(v) == v = None \/ Truthy(v)
\* key k of d is present with value v when v is truthy, and absent otherwise
KeyIffTrue(d, k, v) == IF Truthy(v) THEN Has(d, k) /\ Get(d, k) = v ELSE ~Has(d, k)

RECURSIVE HasNull(_)
\* some key or element of document v, at any depth, is None
HasNull(v) ==
    CASE v = None -> TRUE
      [] v[1] = "dict" -> \E k \in DOMAIN v[2] : HasNull(v[2][k])
      [] v[1] = "list" -> \E i \in 1..Len(v[2]) : HasNull(v[2][i])
      [] OTHER -> FALSE

\* C1: BaseResponse.from_structure delegates by the first rule that matches, in
\* the order is+_behaviors -> Response, is.data -> TcpResponse, proxy -> Proxy,
\* inject -> InjectionResponse, and raises NotImplementedError when none does; an
\* object it returns is of the delegate's variant; a document with is and
\* _behaviors whose is._mode is a valid tag yields a Response even with is.data,
\* and TcpResponse is reached only without _behaviors.
C1_DispatchOrder ==
    (pc = "parsed" /\ call = "BaseResponse") =>
        LET s == structure
            r1 == Has(s, "is") /\ Has(s, "_behaviors")
            r2 == Has(s, "is") /\ Has(Get(s, "is"), "data")
            r3 == Has(s, "proxy")
            r4 == Has(s, "inject")
        IN /\ r1 => callee = "Response"
           /\ (~r1 /\ r2) => (callee = "TcpResponse" /\ result[1] = "TcpResponse")
           /\ (~r1 /\ ~r2 /\ r3) => callee = "Proxy"
           /\ (~r1 /\ ~r2 /\ ~r3 /\ r4) =>
                  (callee = "InjectionResponse" /\ result[1] = "InjectionResponse")
           /\ (~r1 /\ ~r2 /\ ~r3 /\ ~r4) => (callee = "none" /\ result = NotImplementedError)
           /\ result = NotImplementedError => (~r1 /\ ~r2 /\ ~r3 /\ ~r4)
           /\ ~IsError(result) => result[1] = callee
           /\ (r1 /\ Has(Get(s, "is"), "_mode")
                  /\ Get(Get(s, "is"), "_mode") \in {Str("text"), Str("binary")})
                 => result[1] = "Response"
           /\ callee = "TcpResponse" => ~Has(s, "_behaviors")

\* C1 witness: a received document with is, _behaviors and is.data was
\* dispatched and came back as a Response.
C1_Witness ==
    /\ pc = "parsed" /\ call = "BaseResponse" /\ self = None
    /\ Has(structure, "is") /\ Has(structure, "_behaviors")
    /\ Has(Get(structure, "is"), "data")
    /\ result[1] = "Response"

\* C2 (as claimed): for every value of the four variants whose optional fields
\* are each left out or set, the variant's own from_structure applied to its
\* as_structure gives a value of the same variant with equal observable fields.
C2_RoundTrip ==
    \A cls \in Variants :
        (/\ RoundTrip(cls)
         /\ cls = "Response" =>
                \A f \in {"wait", "repeat", "headers", "copy", "decorate", "lookup",
                          "shell_transform"} : SetOrNone(self[2][f])
         /\ cls = "Proxy" => \A f \in {"wait", "inject_headers"} : SetOrNone(self[2][f]))
        => (result[1] = cls /\ Observable(result) = Observable(self))

\* C3 (as claimed): PredicateGenerator.from_structure(g.as_structure()) has the
\* path, query, operator and case_sensitive of g.
C3_GeneratorRoundTrip ==
    RoundTrip("PredicateGenerator") =>
        /\ result[1] = "PredicateGenerator"
        /\ result[2].path = self[2].path
        /\ result[2].query = self[2].query
        /\ result[2].operator = self[2].operator
        /\ result[2].case_sensitive = self[2].case_sensitive

\* C4: in every as_structure output each optional key is present, with the
\* field's (serialized) value, exactly when the field is truthy, and no key or
\* element is None.
C4_Omission ==
    /\ Serialized("Response") =>
           LET inner == Get(structure, "is")
               b == Get(structure, "_behaviors")
           IN /\ KeyIffTrue(inner, "body", Response_body(self))
              /\ KeyIffTrue(inner, "headers", self[2].headers)
              /\ KeyIffTrue(b, "wait", self[2].wait)
              /\ KeyIffTrue(b, "repeat", self[2].repeat)
              /\ KeyIffTrue(b, "decorate", self[2].decorate)
              /\ KeyIffTrue(b, "shellTransform", self[2].shell_transform)
              /\ IF Truthy(self[2].copy)
                 THEN /\ Has(b, "copy")
                      /\ Get(b, "copy") = List([i \in DOMAIN self[2].copy[2] |-> Copy_as_structure(self[2].copy[2][i])])
                 ELSE ~Has(b, "copy")
              /\ IF Truthy(self[2].lookup)
                 THEN /\ Has(b, "lookup")
                      /\ Get(b, "lookup") = List([i \in DOMAIN self[2].lookup[2] |-> Lookup_as_structure(self[2].lookup[2][i])])
                 ELSE ~Has(b, "lookup")
    /\ Serialized("Proxy") =>
           LET p == Get(structure, "proxy")
           IN /\ KeyIffTrue(p, "injectHeaders", self[2].inject_headers)
              /\ IF Truthy(self[2].predicate_generators)
                 THEN /\ Has(p, "predicateGenerators")
                      /\ Get(p, "predicateGenerators")
                             = List([i \in DOMAIN self[2].predicate_generators[2] |-> PredicateGenerator_as_structure(self[2].predicate_generators[2][i])])
                 ELSE ~Has(p, "predicateGenerators")
              /\ IF Truthy(self[2].wait)
                 THEN /\ Has(structure, "_behaviors")
                      /\ Get(Get(structure, "_behaviors"), "wait") = self[2].wait
                 ELSE ~Has(structure, "_behaviors")
    /\ Serialized("PredicateGenerator") =>
           LET m == Get(structure, "matches")
           IN /\ KeyIffTrue(m, "path", self[2].path)
              /\ KeyIffTrue(m, "query", self[2].query)
    /\ (pc \in {"serialized", "parsed"} /\ self # None) => ~HasNull(structure)

\* C4 witness: a Response with wait 0, empty headers, an empty copy list and a
\* truthy repeat was serialized: the falsy ones left no key, repeat is there.
C4_Witness ==
    /\ Serialized("Response")
    /\ self[2].wait = Num(0) /\ self[2].headers = EmptyDict /\ self[2].copy = EmptyList
    /\ self[2].repeat = Num(2)
    /\ DOMAIN Get(structure, "_behaviors")[2] = {"repeat"}
    /\ ~Has(Get(structure, "is"), "headers")

\* C5: Response.as_structure has exactly the keys is and _behaviors; is always
\* carries statusCode (the status code, 0 included) and _mode (the wire tag of
\* the mode, "text" when no mode was given); Response(body="hi", status_code=200)
\* gives {"is": {"statusCode": 200, "_mode": "text", "body": "hi"}, "_behaviors": {}}.
C5_ResponseStructure ==
    Serialized("Response") =>
        LET inner == Get(structure, "is")
        IN /\ DOMAIN structure[2] = {"is", "_behaviors"}
           /\ Has(inner, "statusCode") /\ Get(inner, "statusCode") = args[2].status_code
           /\ Has(inner, "_mode")
           /\ self[2].mode = Response_Mode_TEXT => Get(inner, "_mode") = Str("text")
           /\ self[2].mode = Response_Mode_BINARY => Get(inner, "_mode") = Str("binary")
           /\ args[2].mode = None => Get(inner, "_mode") = Str("text")
           /\ args[2].mode \in {Response_Mode_BINARY, Str("binary")}
                  => Get(inner, "_mode") = Str("binary")
           /\ (/\ args[2].body = Str("hi") /\ args[2].status_code = Num(200)
               /\ \A f \in DOMAIN args[2] \ {"body", "status_code"} : args[2][f] = None)
              => structure = Dict(("is" :> Dict(("statusCode" :> Num(200))
                                                @@ ("_mode" :> Str("text"))
                                                @@ ("body" :> Str("hi"))))
                                  @@ ("_behaviors" :> EmptyDict))

\* C5 witness: a Response with status code 0 and an empty body was serialized
\* and its is block is exactly statusCode 0 and _mode.
C5_Witness ==
    /\ Serialized("Response")
    /\ args[2].status_code = Num(0)
    /\ Get(structure, "is") = Dict(("statusCode" :> Num(0)) @@ ("_mode" :> Str("text")))

\* C6: Proxy.as_structure always carries proxy.to (the target as a URL string)
\* and proxy.mode (the wire tag); without an explicit mode the mode is ONCE and
\* the tag "proxyOnce"; _behaviors is present exactly when wait is set (truthy:
\* a wait of 0 is not), and then it is {"wait": wait};
\* Proxy(to="http://origin") gives {"proxy": {"to": "http://origin", "mode": "proxyOnce"}}.
C6_ProxyStructure ==
    Serialized("Proxy") =>
        LET p == Get(structure, "proxy")
        IN /\ Has(structure, "proxy") /\ Has(p, "to") /\ Has(p, "mode")
           /\ Get(p, "to")[1] = "str"
           /\ args[2].to[1] = "str" => Get(p, "to") = args[2].to
           /\ args[2].to[1] = "furl" => Get(p, "to") = Str(args[2].to[2])
           /\ args[2].mode = Omitted =>
                  (self[2].mode = Proxy_Mode_ONCE /\ Get(p, "mode") = Str("proxyOnce"))
           /\ args[2].mode = Proxy_Mode_ONCE => Get(p, "mode") = Str("proxyOnce")
           /\ args[2].mode = Proxy_Mode_ALWAYS => Get(p, "mode") = Str("proxyAlways")
           /\ args[2].mode = Proxy_Mode_TRANSPARENT => Get(p, "mode") = Str("proxyTransparent")
           /\ Has(structure, "_behaviors") <=> Truthy(args[2].wait)
           /\ Has(structure, "_behaviors")
                  => Get(structure, "_behaviors") = Dict("wait" :> args[2].wait)
           /\ DOMAIN structure[2] \subseteq {"proxy", "_behaviors"}
           /\ (/\ args[2].to = Str("http://origin") /\ args[2].mode = Omitted
               /\ \A f \in {"wait", "inject_headers", "predicate_generators"} :
                      args[2][f] = None)
              => structure = Dict("proxy" :> Dict(("to" :> Str("http://origin"))
                                                  @@ ("mode" :> Str("proxyOnce"))))

\* C6 witness: Proxy(to="http://origin") was serialized to exactly the proxy
\* block with to and proxyOnce.
C6_Witness ==
    /\ Serialized("Proxy")
    /\ args[2].to = Str("http://origin") /\ args[2].mode = Omitted
    /\ structure = Dict("proxy" :> Dict(("to" :> Str("http://origin"))
                                        @@ ("mode" :> Str("proxyOnce"))))

\* C7: is._mode parses exactly "text" and "binary", proxy.mode exactly
\* "proxyOnce", "proxyAlways" and "proxyTransparent", each to its own member,
\* which serializes back to the same tag; any other mode tag, and any operator
\* name that is no Predicate.Operator member, makes the parse fail with the
\* enum lookup's error (when the keys read before it are there) and no object.
C7_EnumTags ==
    /\ (Parsed("Response") /\ Has(structure, "is") /\ Has(Get(structure, "is"), "_mode")) =>
           LET tag == Get(Get(structure, "is"), "_mode")
               member == IF tag = Str("text") THEN Response_Mode_TEXT ELSE Response_Mode_BINARY
           IN IF tag \in {Str("text"), Str("binary")}
              THEN /\ result[1] = "Response"
                   /\ result[2].mode = member
                   /\ Get(Get(Response_as_structure(result), "is"), "_mode") = tag
              ELSE result = ValueError(tag)
    /\ (Parsed("Proxy") /\ Has(structure, "proxy") /\ Has(Get(structure, "proxy"), "mode")) =>
           LET p == Get(structure, "proxy")
               tag == Get(p, "mode")
               member == IF tag = Str("proxyOnce") THEN Proxy_Mode_ONCE
                         ELSE IF tag = Str("proxyAlways") THEN Proxy_Mode_ALWAYS
                         ELSE Proxy_Mode_TRANSPARENT
           IN IF tag \in {Str("proxyOnce"), Str("proxyAlways"), Str("proxyTransparent")}
              THEN /\ (Has(p, "to") /\ ~Has(p, "predicateGenerators")) => result[1] = "Proxy"
                   /\ result[1] = "Proxy" =>
                          /\ result[2].mode = member
                          /\ Get(Get(Proxy_as_structure(result), "proxy"), "mode") = tag
              ELSE /\ IsError(result)
                   /\ Has(p, "to") => result = ValueError(tag)
    /\ (Parsed("PredicateGenerator") /\ Has(structure, "operator")) =>
           LET name == Get(structure, "operator")
           IN IF name[2] \in Predicate_Operator_names
              THEN Has(structure, "matches") =>
                       (/\ result[1] = "PredicateGenerator"
                        /\ result[2].operator = <<"Predicate.Operator", name[2]>>)
              ELSE /\ IsError(result)
                   /\ Has(structure, "matches") => result = KeyError(name[2])

\* C7 witness: a received document whose is._mode is "TEXT" (the member's name,
\* not its tag) was parsed by Response.from_structure, which raised ValueError.
C7_Witness ==
    /\ Parsed("Response") /\ self = None
    /\ Has(structure, "is") /\ Has(Get(structure, "is"), "_mode")
    /\ Get(Get(structure, "is"), "_mode") = Str("TEXT")
    /\ result = ValueError(Str("TEXT"))

\* C8: TcpResponse.from_structure on a document without is.data, and
\* Proxy.from_structure on a document without proxy.to, raise KeyError and
\* return no object.
C8_MissingRequired ==
    /\ (Parsed("TcpResponse")
            /\ ~(Has(structure, "is") /\ Has(Get(structure, "is"), "data")))
           => result[1] = "KeyError"
    /\ (Parsed("Proxy") /\ Has(structure, "proxy") /\ ~Has(Get(structure, "proxy"), "to"))
           => result = KeyError("to")

\* C8 witness: TcpResponse.from_structure was applied to a document whose is
\* block lacks data and raised KeyError for it.
C8_Witness ==
    /\ Parsed("TcpResponse")
    /\ Has(structure, "is") /\ ~Has(Get(structure, "is"), "data")
    /\ result = KeyError("data")

\* C9: PredicateGenerator.from_structure of a document with matches gives path
\* None and query None when their keys are absent, operator EQUALS without
\* "operator", case_sensitive False without "caseSensitive"; a generator built
\* without case_sensitive has True; as_structure always emits caseSensitive with
\* the generator's value.
C9_GeneratorDefaults ==
    /\ (pc = "parsed" /\ call = "PredicateGenerator" /\ Has(structure, "matches")) =>
           LET m == Get(structure, "matches")
           IN /\ ~Has(structure, "operator") => result[1] = "PredicateGenerator"
              /\ result[1] = "PredicateGenerator" =>
                     /\ result[2].path = IF Has(m, "path") THEN Get(m, "path") ELSE None
                     /\ result[2].query = IF Has(m, "query") THEN Get(m, "query") ELSE None
                     /\ ~Has(structure, "operator")
                            => result[2].operator = Predicate_Operator_EQUALS
                     /\ result[2].case_sensitive =
                            IF Has(structure, "caseSensitive")
                            THEN Get(structure, "caseSensitive") ELSE Bool(FALSE)
    /\ (pc # "idle" /\ self[1] = "PredicateGenerator") =>
           self[2].case_sensitive =
               IF args[2].case_sensitive = Omitted THEN Bool(TRUE) ELSE args[2].case_sensitive
    /\ Serialized("PredicateGenerator") =>
           /\ Has(structure, "caseSensitive")
           /\ Get(structure, "caseSensitive") = self[2].case_sensitive

\* C9 witness: the received document {"matches": {}} was parsed into a
\* generator with path None, query None, operator EQUALS, case_sensitive False.
C9_Witness ==
    /\ pc = "parsed" /\ call = "PredicateGenerator"
    /\ structure = Dict("matches" :> EmptyDict)
    /\ result = Obj("PredicateGenerator",
                    [path |-> None, query |-> None, operator |-> Predicate_Operator_EQUALS,
                     case_sensitive |-> Bool(FALSE)])

\* C10: BaseResponse.from_structure(v.as_structure()) returns a value of v's
\* variant, for every v of the four variants: no exception, no other variant.
C10_DispatchInvertsSerialization ==
    (pc = "parsed" /\ call = "BaseResponse" /\ self[1] \in Variants) =>
        (~IsError(result) /\ result[1] = self[1] /\ callee = self[1])

\* C10 witness: a Proxy with latency, whose document has a top-level
\* _behaviors, was serialized, dispatched and came back as a Proxy.
C10_Witness ==
    /\ pc = "parsed" /\ call = "BaseResponse" /\ self[1] = "Proxy"
    /\ Has(structure, "_behaviors")
    /\ result[1] = "Proxy"

====
